---- MODULE Spec2Model ----
(***************************************************************************)
(* Model of the overlay dialog (src/src/components/Modal.tsx) running      *)
(* under the React runtime: NumInst Modal instances, each rendered by a    *)
(* caller that owns its props, sharing one document (document.body's       *)
(* overflow style, the document's keydown listener list and the portal     *)
(* children of document.body).                                             *)
(*                                                                         *)
(* A render of an instance commits its output (the portal content) and     *)
(* queues the passive effects whose dependencies changed; React then runs  *)
(* the queued cleanups in declaration order, followed by the queued effect *)
(* bodies in declaration order.  Each of these is one step of the model,   *)
(* so the states inside one open/close transition are visible.  Input      *)
(* events (keydown, click) are delivered by the host event loop between    *)
(* React tasks, that is when no effect is queued.  The dispatch of an      *)
(* event is one step, which records the event and the onClose calls it     *)
(* made; the step after it ends the event task.                            *)
(*                                                                         *)
(* SpecShowcase restricts the callers to the showcase page                 *)
(* (src/unnamed/part_001), whose onClose sets isOpen to false.  SpecButton *)
(* and SpecInput model the Button (src/unnamed/part_005) and the Input     *)
(* (src/src/components/Input.tsx) of the same library.                     *)
(***************************************************************************)
EXTENDS Integers, Sequences, FiniteSets

\* Number of Modal instances that callers may render concurrently.
NumInst == 2

Inst == 1..NumInst

\* Identities of the functions a caller may pass as onClose.
Callbacks == {"cbA", "cbB"}

\* A boolean prop as written by the caller: given or left out.
PropValues == {"true", "false", "omitted"}

\* Values document.body.style.overflow may have before any Modal touches it.
InitialOverflow == {"", "scroll"}

\* Keys of the keydown events dispatched on the document.
Keys == {"Escape", "Enter"}

\* Elements of one instance's rendered tree on which a click may be dispatched.
ClickTargets == {"backdrop", "dialog", "content", "closeButton"}

VARIABLES
    mounted,        \* mounted[i]: instance i is rendered by its caller
    props,          \* props[i]: the props of i's last render, as destructured (defaults applied)
    cleanup1,       \* cleanup1[i]: cleanup returned by the escape-key effect (<<>> or <<listener>>)
    cleanup2,       \* cleanup2[i]: the scroll-lock effect returned a cleanup
    held,           \* held[i]: executions of line 49 minus executions of line 51 by i
    listeners,      \* 'keydown' listeners on document, in registration order
    overflow,       \* document.body.style.overflow
    overflow0,      \* the value overflow had before any instance opened
    portal,         \* instances whose content is a child of document.body, in append order
    pending,        \* passive-effect steps React still has to run, in order
    event,          \* the input event being handled (kind "none" outside an event task)
    calls,          \* onClose invocations made by that event, in order
    button,         \* a rendered Button: its props and the <button> element it returned
    input,          \* a rendered Input: its props, its isFocused state, the element's focus
    form            \* the contact form of the showcase page: its state and its timers

vars == <<mounted, props, cleanup1, cleanup2, held, listeners, overflow,
          overflow0, portal, pending, event, calls, button, input, form>>

\* The document and the Modal instances.
modal == <<mounted, props, cleanup1, cleanup2, held, listeners, overflow,
           overflow0, portal, pending, event, calls>>

\* The form widgets of the library.
widgets == <<button, input, form>>

\* The props a caller passes (ModalProps, restricted to the props that decide behaviour).
ModalProps == [isOpen : BOOLEAN, onClose : Callbacks,
               closeOnBackdropClick : PropValues, closeOnEscapeKey : PropValues]

\* The parameters of Modal as its body sees them.
Props == [isOpen : BOOLEAN, onClose : Callbacks,
          closeOnBackdropClick : BOOLEAN, closeOnEscapeKey : BOOLEAN]

\* Props of an instance that is not rendered (no props exist; a fixed filler).
NoProps == [isOpen |-> FALSE, onClose |-> "cbA",
            closeOnBackdropClick |-> TRUE, closeOnEscapeKey |-> TRUE]

----------------------------------------------------------------------------
(* Button (pure render) *)

ButtonVariants == {"primary", "secondary", "outline", "ghost", "danger"}

ButtonSizes == {"sm", "md", "lg"}

\* The props a caller passes to Button (the ones its render reads).
ButtonProps == [variant : ButtonVariants \cup {"omitted"},
                size : ButtonSizes \cup {"omitted"},
                isLoading : PropValues, fullWidth : PropValues,
                disabled : PropValues, children : {"Submit"}]

\* Destructuring default `= d` of an optional prop.
DefaultOf(v, d) == IF v = "omitted" THEN d ELSE v

\* Destructuring default `= false` of an optional boolean prop.
DefaultFalse(p) == IF p = "omitted" THEN FALSE ELSE p = "true"

\* Truthiness of an optional boolean prop without default (undefined is falsy).
Truthy(p) == p = "true"

\* Mutant: the disabled attribute ignores isLoading.
ButtonDisabledIgnoresLoading(bp) == Truthy(bp.disabled)

\* disabled={disabled || isLoading}
ButtonDisabled(bp) == Truthy(bp.disabled) \/ DefaultFalse(bp.isLoading)

\* {isLoading ? (<><svg .../>Loading...</>) : children}
ButtonChildren(bp) ==
    IF DefaultFalse(bp.isLoading) THEN <<"spinner", "Loading...">> ELSE <<bp.children>>

\* className: size, variant and width styles.
ButtonClass(bp) ==
    <<DefaultOf(bp.size, "md"), DefaultOf(bp.variant, "primary"),
      IF DefaultFalse(bp.fullWidth) THEN "w-full" ELSE "">>

\* The <button> element one render of Button returns.
ButtonElement(bp) ==
    [disabled |-> ButtonDisabled(bp), className |-> ButtonClass(bp),
     children |-> ButtonChildren(bp)]

\* No Button is rendered (a fixed filler).
NoButton ==
    LET bp == [variant |-> "omitted", size |-> "omitted", isLoading |-> "omitted",
               fullWidth |-> "omitted", disabled |-> "omitted", children |-> "Submit"]
    IN [mounted |-> FALSE, props |-> bp, element |-> ButtonElement(bp)]

----------------------------------------------------------------------------
(* Input (label focus state and render) *)

\* An event-handler prop as written by the caller: left out, passed as
\* undefined, or a function of the caller.
HandlerProps == {"omitted", "undefined", "fn"}

\* The props a caller passes to Input: label, error, helperText and id, and as
\* rest props (`...props`) the two focus handlers.
InputProps == [label : {"", "Name"}, error : {"", "Required"},
               helperText : {"", "Hint"}, id : {"omitted", "email"},
               onFocus : HandlerProps, onBlur : HandlerProps]

\* Results of Math.random().toString(36).slice(2, 9) in different renders.
RandomSuffixes == {"k3x9q2a", "p0d7m1z"}

\* An attribute written before {...props}: a key present in props replaces it.
Spread(own, passed) == IF passed = "omitted" THEN own ELSE passed

\* The onFocus handler of the <input> element.
InputOnFocus(ip) == Spread("setIsFocused(true)", ip.onFocus)

\* The onBlur handler of the <input> element.
InputOnBlur(ip) == Spread("setIsFocused(false)", ip.onBlur)

\* The colour class of the label.
LabelClass(isFocused) == IF isFocused THEN "text-[#5200ff]" ELSE "text-gray-700"

\* const inputId = id || `input-${random}` (a string, as a tuple of its parts)
InputId(ip, rnd) == IF ip.id # "omitted" THEN <<ip.id>> ELSE <<"input-", rnd>>

\* `${inputId}-error`
ErrorId(inputId) == inputId \o <<"-error">>

\* {label && <label htmlFor={inputId} className=...>{label}</label>}
InputLabel(ip, isFocused, inputId) ==
    IF ip.label # ""
    THEN <<[htmlFor |-> inputId, className |-> LabelClass(isFocused), text |-> ip.label]>>
    ELSE <<>>

\* {error && <p id={`${inputId}-error`}>{error}</p>}
InputError(ip, inputId) ==
    IF ip.error # "" THEN <<[id |-> ErrorId(inputId), text |-> ip.error]>> ELSE <<>>

\* Mutant: the helper text is rendered whether or not there is an error.
InputHelperIgnoresError(ip) == IF ip.helperText # "" THEN <<ip.helperText>> ELSE <<>>

\* {helperText && !error && <p>{helperText}</p>}
InputHelper(ip) ==
    IF ip.helperText # "" /\ ~(ip.error # "") THEN <<ip.helperText>> ELSE <<>>

\* The tree one render of Input returns; an absent element or an undefined
\* attribute is <<>>.
InputElement(ip, isFocused, rnd) ==
    LET inputId == InputId(ip, rnd)
    IN [label |-> InputLabel(ip, isFocused, inputId),
        input |-> [id |-> inputId,
                   onFocus |-> InputOnFocus(ip), onBlur |-> InputOnBlur(ip),
                   ariaInvalid |-> ip.error # "",
                   ariaDescribedby |-> IF ip.error # "" THEN <<ErrorId(inputId)>> ELSE <<>>],
        error |-> InputError(ip, inputId),
        helper |-> InputHelper(ip)]

\* No Input is rendered (a fixed filler).
NoInput ==
    LET ip == [label |-> "", error |-> "", helperText |-> "", id |-> "email",
               onFocus |-> "omitted", onBlur |-> "omitted"]
    IN [mounted |-> FALSE, props |-> ip, isFocused |-> FALSE, hasFocus |-> FALSE,
        element |-> InputElement(ip, FALSE, "k3x9q2a")]

----------------------------------------------------------------------------
(* The contact form of the showcase page *)

\* Timers that handleSubmit may have started and that have not fired.
MaxTimers == 2

\* useState({ name: '', email: '', message: '' })
EmptyFormData == [name |-> "", email |-> "", message |-> ""]

\* <Button type="submit" isLoading={isLoading} fullWidth>
SubmitButtonProps(isLoading) ==
    [variant |-> "omitted", size |-> "omitted",
     isLoading |-> IF isLoading THEN "true" ELSE "false",
     fullWidth |-> "true", disabled |-> "omitted",
     children |-> IF isLoading THEN "Sending..." ELSE "Send Message"]

\* The submit Button as one render of the page returns it.
SubmitButton(isLoading) ==
    [mounted |-> TRUE, props |-> SubmitButtonProps(isLoading),
     element |-> ButtonElement(SubmitButtonProps(isLoading))]

\* The page is not rendered (a fixed filler).  `old` counts the timers of
\* earlier renders of the page that have not fired; `alert` tells whose timer
\* callback is blocked in alert().
NoForm ==
    [mounted |-> FALSE, batching |-> TRUE, isLoading |-> FALSE,
     formData |-> EmptyFormData, timers |-> 0, old |-> 0, alert |-> "none"]

----------------------------------------------------------------------------
(* Pure helpers *)

\* Destructuring default `= true` of an optional boolean prop.
DefaultTrue(p) == IF p = "omitted" THEN TRUE ELSE p = "true"

\* Parameter destructuring of Modal: the two flags default to true.
Destructure(mp) ==
    [isOpen |-> mp.isOpen, onClose |-> mp.onClose,
     closeOnBackdropClick |-> DefaultTrue(mp.closeOnBackdropClick),
     closeOnEscapeKey |-> DefaultTrue(mp.closeOnEscapeKey)]

\* Mutant: the early return for a closed instance is missing.
RendersPortalAlways(p) == TRUE

\* `if (!isOpen) return null`, otherwise a portal into document.body.
RendersPortal(p) == p.isOpen

\* Mutant: the escape-key effect lacks its `if (!isOpen) return` guard.
EscapeEffectRegistersWhenClosed(p) == p.closeOnEscapeKey

\* The escape-key effect registers a listener when open and closeOnEscapeKey.
EscapeEffectRegisters(p) == p.isOpen /\ p.closeOnEscapeKey

\* Mutant: the escape-key effect's dependency array omits onClose.
EscapeDepsNoOnClose(p) == <<p.isOpen, p.closeOnEscapeKey>>

\* Dependency array of the escape-key effect.
EscapeDeps(p) == <<p.isOpen, p.onClose, p.closeOnEscapeKey>>

\* Mutant: the scroll-lock effect's dependency array has closeOnEscapeKey too.
LockDepsWithEscapeKey(p) == <<p.isOpen, p.closeOnEscapeKey>>

\* Dependency array of the scroll-lock effect.
LockDeps(p) == <<p.isOpen>>

\* The listener the escape-key effect registers: closure over i's onClose.
Listener(i, p) == [inst |-> i, cb |-> p.onClose]

RECURSIVE RemoveFirst(_, _)
\* removeEventListener / removeChild: drop the first occurrence of x.
RemoveFirst(s, x) ==
    IF s = <<>> THEN <<>>
    ELSE IF Head(s) = x THEN Tail(s)
    ELSE <<Head(s)>> \o RemoveFirst(Tail(s), x)

\* Mutant: the portal content is inserted before the existing children.
PrependChild(s, x) == IF \E k \in 1..Len(s) : s[k] = x THEN s ELSE <<x>> \o s

\* appendChild of the portal content when it is not yet there.
Append1(s, x) == IF \E k \in 1..Len(s) : s[k] = x THEN s ELSE Append(s, x)

InSeq(s, x) == \E k \in 1..Len(s) : s[k] = x

Count(s, x) == Cardinality({k \in 1..Len(s) : s[k] = x})

Settled == pending = <<>>

\* No render is being flushed and no input event is being handled.
Idle == pending = <<>> /\ event.kind = "none"

Open(i) == mounted[i] /\ props[i].isOpen

ListenersOf(i) == {k \in 1..Len(listeners) : listeners[k].inst = i}

CallsOf(i) == {k \in 1..Len(calls) : calls[k].inst = i}

----------------------------------------------------------------------------
Init ==
    /\ mounted = [i \in Inst |-> FALSE]
    /\ props = [i \in Inst |-> NoProps]
    /\ cleanup1 = [i \in Inst |-> <<>>]
    /\ cleanup2 = [i \in Inst |-> FALSE]
    /\ held = [i \in Inst |-> 0]
    /\ listeners = <<>>
    /\ overflow0 \in InitialOverflow
    /\ overflow = overflow0
    /\ portal = <<>>
    /\ pending = <<>>
    /\ event = [kind |-> "none", key |-> "", inst |-> 0, target |-> ""]
    /\ calls = <<>>
    /\ button = NoButton
    /\ input = NoInput
    /\ form = NoForm

NoEv == [kind |-> "none", key |-> "", inst |-> 0, target |-> ""]

Step(i, k) == [inst |-> i, kind |-> k]

----------------------------------------------------------------------------
(* React's scheduling of the two effects of one instance *)

\* Mutant: the escape-key effect has no dependency array and re-runs on every render.
EscapeChangedAlways(old, new) == TRUE

\* The escape-key effect re-runs when one of [isOpen, onClose, closeOnEscapeKey] changed.
EscapeChanged(old, new) == EscapeDeps(old) # EscapeDeps(new)

\* Mutant: the scroll-lock effect has no dependency array and re-runs on every render.
LockChangedAlways(old, new) == TRUE

\* The scroll-lock effect re-runs when [isOpen] changed.
LockChanged(old, new) == LockDeps(old) # LockDeps(new)

\* Mutant: the scroll-lock effect is declared before the escape-key effect.
MountEffectsLockFirst(i) == <<Step(i, "run2"), Step(i, "run1")>>

\* First render of an instance: both effect bodies run, in declaration order.
MountEffects(i) == <<Step(i, "run1"), Step(i, "run2")>>

\* Mutant: the effects return no cleanup, so removing an instance runs nothing.
UnmountEffectsNone(i) == <<>>

\* Removal of an instance: the stored cleanups run, in declaration order.
UnmountEffects(i) ==
    (IF cleanup1[i] # <<>> THEN <<Step(i, "cleanup1")>> ELSE <<>>)
    \o (IF cleanup2[i] THEN <<Step(i, "cleanup2")>> ELSE <<>>)

\* Re-render: cleanups of the changed effects first, then their bodies.
UpdateEffects(i, old, new) ==
    (IF EscapeChanged(old, new) /\ cleanup1[i] # <<>> THEN <<Step(i, "cleanup1")>> ELSE <<>>)
    \o (IF LockChanged(old, new) /\ cleanup2[i] THEN <<Step(i, "cleanup2")>> ELSE <<>>)
    \o (IF EscapeChanged(old, new) THEN <<Step(i, "run1")>> ELSE <<>>)
    \o (IF LockChanged(old, new) THEN <<Step(i, "run2")>> ELSE <<>>)

\* Mutant: the content is rendered in place, in the caller's tree.
CommitInline(i, p) == portal

\* Commit of i's render output to document.body.
CommitPortal(i, p) ==
    IF RendersPortal(p) THEN Append1(portal, i) ELSE RemoveFirst(portal, i)

----------------------------------------------------------------------------
(* Renders, driven by the caller *)

\* The caller starts rendering instance i with props mp.
Mount(i, mp) ==
    /\ Idle
    /\ ~mounted[i]
    /\ mounted' = [mounted EXCEPT ![i] = TRUE]
    /\ props' = [props EXCEPT ![i] = Destructure(mp)]
    /\ portal' = CommitPortal(i, Destructure(mp))
    /\ pending' = MountEffects(i)
    /\ UNCHANGED <<cleanup1, cleanup2, held, listeners, overflow, overflow0, event, calls, widgets>>

\* The caller re-renders instance i with props mp.
Rerender(i, mp) ==
    /\ Idle
    /\ mounted[i]
    /\ props' = [props EXCEPT ![i] = Destructure(mp)]
    /\ portal' = CommitPortal(i, Destructure(mp))
    /\ pending' = UpdateEffects(i, props[i], Destructure(mp))
    /\ UNCHANGED <<mounted, cleanup1, cleanup2, held, listeners, overflow, overflow0,
                   event, calls, widgets>>

\* The caller stops rendering instance i.
Unmount(i) ==
    /\ Idle
    /\ mounted[i]
    /\ mounted' = [mounted EXCEPT ![i] = FALSE]
    /\ props' = [props EXCEPT ![i] = NoProps]
    /\ portal' = RemoveFirst(portal, i)
    /\ pending' = UnmountEffects(i)
    /\ UNCHANGED <<cleanup1, cleanup2, held, listeners, overflow, overflow0, event, calls, widgets>>

----------------------------------------------------------------------------
(* The passive effects *)

NextIs(i, k) == pending # <<>> /\ Head(pending) = Step(i, k)

\* Mutant: the escape-key effect returns no cleanup that removes the listener.
RemoveListenerLeak(ls, l) == ls

\* document.removeEventListener('keydown', handleEscape)
RemoveListener(ls, l) == RemoveFirst(ls, l)

\* Body of the escape-key effect.
RunEscapeEffect(i) ==
    /\ NextIs(i, "run1")
    /\ pending' = Tail(pending)
    /\ IF EscapeEffectRegisters(props[i])
       THEN /\ listeners' = Append(listeners, Listener(i, props[i]))
            /\ cleanup1' = [cleanup1 EXCEPT ![i] = <<Listener(i, props[i])>>]
       ELSE /\ listeners' = listeners
            /\ cleanup1' = [cleanup1 EXCEPT ![i] = <<>>]
    /\ UNCHANGED <<mounted, props, cleanup2, held, overflow, overflow0, portal,
                   event, calls, widgets>>

\* Cleanup of the escape-key effect.
CleanupEscape(i) ==
    /\ NextIs(i, "cleanup1")
    /\ pending' = Tail(pending)
    /\ listeners' = RemoveListener(listeners, cleanup1[i][1])
    /\ cleanup1' = [cleanup1 EXCEPT ![i] = <<>>]
    /\ UNCHANGED <<mounted, props, cleanup2, held, overflow, overflow0, portal,
                   event, calls, widgets>>

\* Body of the scroll-lock effect.
RunLockEffect(i) ==
    /\ NextIs(i, "run2")
    /\ pending' = Tail(pending)
    /\ IF props[i].isOpen
       THEN /\ overflow' = "hidden"
            /\ cleanup2' = [cleanup2 EXCEPT ![i] = TRUE]
            /\ held' = [held EXCEPT ![i] = @ + 1]
       ELSE /\ overflow' = overflow
            /\ cleanup2' = [cleanup2 EXCEPT ![i] = FALSE]
            /\ held' = held
    /\ UNCHANGED <<mounted, props, cleanup1, listeners, overflow0, portal,
                   event, calls, widgets>>

\* Value the scroll-lock cleanup writes to document.body.style.overflow.
RestoredOverflow == "unset"

\* Cleanup of the scroll-lock effect.
CleanupLock(i) ==
    /\ NextIs(i, "cleanup2")
    /\ pending' = Tail(pending)
    /\ overflow' = RestoredOverflow
    /\ cleanup2' = [cleanup2 EXCEPT ![i] = FALSE]
    /\ held' = [held EXCEPT ![i] = @ - 1]
    /\ UNCHANGED <<mounted, props, cleanup1, listeners, overflow0, portal,
                   event, calls, widgets>>

----------------------------------------------------------------------------
(* Input events *)

\* An invocation of instance i's onClose prop cb.
Call(i, cb) == [inst |-> i, cb |-> cb]

\* Mutant: the handler lacks its `e.key === 'Escape'` test.
handleEscapeAnyKey(l, key) == <<Call(l.inst, l.cb)>>

\* handleEscape of listener l on a keydown of `key`.
handleEscape(l, key) == IF key = "Escape" THEN <<Call(l.inst, l.cb)>> ELSE <<>>

\* Mutant: only the most recently registered listener handles the keydown.
DispatchKeyDownTopOnly(ls, key) ==
    IF ls = <<>> THEN <<>> ELSE handleEscape(ls[Len(ls)], key)

RECURSIVE DispatchKeyDown(_, _)
\* The document calls its keydown listeners in registration order.
DispatchKeyDown(ls, key) ==
    IF ls = <<>> THEN <<>>
    ELSE handleEscape(Head(ls), key) \o DispatchKeyDown(Tail(ls), key)

\* Mutant: the dialog closes itself on Escape instead of only calling onClose.
KeyDownSelfClosing(key) ==
    LET cs == DispatchKeyDown(listeners, key)
        closed == {i \in Inst : \E k \in 1..Len(cs) : cs[k].inst = i}
    IN /\ Idle
       /\ event' = [kind |-> "keydown", key |-> key, inst |-> 0, target |-> ""]
       /\ calls' = cs
       /\ props' = [i \in Inst |-> IF i \in closed
                                    THEN [props[i] EXCEPT !.isOpen = FALSE]
                                    ELSE props[i]]
       /\ portal' = SelectSeq(portal, LAMBDA i : i \notin closed)
       /\ UNCHANGED <<mounted, cleanup1, cleanup2, held, listeners, overflow,
                      overflow0, pending, widgets>>

\* A keydown event reaches the document.
KeyDown(key) ==
    /\ Idle
    /\ event' = [kind |-> "keydown", key |-> key, inst |-> 0, target |-> ""]
    /\ calls' = DispatchKeyDown(listeners, key)
    /\ UNCHANGED <<mounted, props, cleanup1, cleanup2, held, listeners, overflow,
                   overflow0, portal, pending, widgets>>

\* Mutant: the backdrop handler ignores closeOnBackdropClick.
handleBackdropClickAlways(i) ==
    [calls |-> <<Call(i, props[i].onClose)>>, stop |-> FALSE]

\* handleBackdropClick of instance i.
handleBackdropClick(i) ==
    [calls |-> IF props[i].closeOnBackdropClick THEN <<Call(i, props[i].onClose)>> ELSE <<>>,
     stop |-> FALSE]

\* Mutant: the dialog container does not stop propagation.
handleModalClickNoStop(i) == [calls |-> <<>>, stop |-> FALSE]

\* handleModalClick of instance i: e.stopPropagation().
handleModalClick(i) == [calls |-> <<>>, stop |-> TRUE]

\* Mutant: the close button is wired to the backdrop handler.
closeButtonClickGuarded(i) ==
    [calls |-> IF props[i].closeOnBackdropClick THEN <<Call(i, props[i].onClose)>> ELSE <<>>,
     stop |-> FALSE]

\* onClick of the built-in close button.
closeButtonClick(i) == [calls |-> <<Call(i, props[i].onClose)>>, stop |-> FALSE]

\* The onClick handler of element el in i's rendered tree.
OnClick(i, el) ==
    CASE el = "backdrop" -> handleBackdropClick(i)
      [] el = "dialog" -> handleModalClick(i)
      [] el = "closeButton" -> closeButtonClick(i)
      [] OTHER -> [calls |-> <<>>, stop |-> FALSE]

\* Bubbling path of a click: the target, then its ancestors up to the backdrop.
Path(target) ==
    CASE target = "backdrop" -> <<"backdrop">>
      [] target = "dialog" -> <<"dialog", "backdrop">>
      [] OTHER -> <<target, "dialog", "backdrop">>

RECURSIVE Propagate(_, _)
\* Handlers run along the path until one stops propagation.
Propagate(i, path) ==
    IF path = <<>> THEN <<>>
    ELSE LET h == OnClick(i, Head(path))
         IN h.calls \o (IF h.stop THEN <<>> ELSE Propagate(i, Tail(path)))

\* A click is dispatched on element `target` of instance i's mounted content.
Click(i, target) ==
    /\ Idle
    /\ InSeq(portal, i)
    /\ event' = [kind |-> "click", key |-> "", inst |-> i, target |-> target]
    /\ calls' = Propagate(i, Path(target))
    /\ UNCHANGED <<mounted, props, cleanup1, cleanup2, held, listeners, overflow,
                   overflow0, portal, pending, widgets>>

\* The event task ends: every handler has returned.
EventDone ==
    /\ event.kind # "none"
    /\ event' = NoEv
    /\ calls' = <<>>
    /\ UNCHANGED <<mounted, props, cleanup1, cleanup2, held, listeners, overflow,
                   overflow0, portal, pending, widgets>>

----------------------------------------------------------------------------
Next ==
    \/ \E i \in Inst, mp \in ModalProps : Mount(i, mp)
    \/ \E i \in Inst, mp \in ModalProps : Rerender(i, mp)
    \/ \E i \in Inst : Unmount(i)
    \/ \E i \in Inst : RunEscapeEffect(i)
    \/ \E i \in Inst : CleanupEscape(i)
    \/ \E i \in Inst : RunLockEffect(i)
    \/ \E i \in Inst : CleanupLock(i)
    \/ \E key \in Keys : KeyDown(key)
    \/ \E i \in Inst, target \in ClickTargets : Click(i, target)
    \/ EventDone

Spec == Init /\ [][Next]_vars

----------------------------------------------------------------------------
(* The showcase page as caller: each Modal is rendered by a component that   *)
(* keeps isModalOpen in state and passes an inline onClose that sets it to   *)
(* false.                                                                    *)

\* <Modal isOpen={isModalOpen} onClose={() => setIsModalOpen(false)} ...>
ShowcaseProps(open, cb) ==
    [isOpen |-> open, onClose |-> cb,
     closeOnBackdropClick |-> "omitted", closeOnEscapeKey |-> "omitted"]

\* The inline arrow function is a new function on every render of the caller.
NewClosure(cb) == CHOOSE c \in Callbacks : c # cb

\* The caller is first rendered: useState(false).
ShowcaseMount(i) == Mount(i, ShowcaseProps(FALSE, "cbA"))

\* A button of the page calls setIsModalOpen(true).
ShowcaseOpen(i) ==
    /\ ~props[i].isOpen
    /\ Rerender(i, ShowcaseProps(TRUE, NewClosure(props[i].onClose)))

\* The caller re-renders because other state of the page changed.
ShowcaseRender(i) ==
    Rerender(i, ShowcaseProps(props[i].isOpen, NewClosure(props[i].onClose)))

\* Instances whose onClose the current event has called.
Called == {i \in Inst : CallsOf(i) # {}}

\* Callers whose setIsModalOpen(false) changes their state.
ToClose == {i \in Called : Open(i)}

\* The props of the render that follows setIsModalOpen(false).
ClosedProps(i) == Destructure(ShowcaseProps(FALSE, NewClosure(props[i].onClose)))

RECURSIVE BatchEffects(_, _)
\* The effects of the callers in S re-rendered in one commit, from instance i on.
BatchEffects(i, S) ==
    IF i > NumInst THEN <<>>
    ELSE (IF i \in S THEN UpdateEffects(i, props[i], ClosedProps(i)) ELSE <<>>)
         \o BatchEffects(i + 1, S)

IsCleanupStep(s) == s.kind \in {"cleanup1", "cleanup2"}

IsRunStep(s) == s.kind \in {"run1", "run2"}

\* The state updates made by the onClose calls of the current event are
\* rendered in one commit at the end of the handler: the content of the closed
\* instances is removed, all cleanups are queued before all effect bodies.
CallerCloses ==
    /\ event.kind # "none"
    /\ pending = <<>>
    /\ ToClose # {}
    /\ props' = [i \in Inst |-> IF i \in ToClose THEN ClosedProps(i) ELSE props[i]]
    /\ portal' = LET Stays(j) == j \notin ToClose \/ RendersPortal(ClosedProps(j))
                 IN SelectSeq(portal, Stays)
    /\ pending' = LET all == BatchEffects(1, ToClose)
                  IN SelectSeq(all, IsCleanupStep) \o SelectSeq(all, IsRunStep)
    /\ UNCHANGED <<mounted, cleanup1, cleanup2, held, listeners, overflow, overflow0,
                   event, calls, widgets>>

\* The event task ends once the renders it caused are flushed.
ShowcaseEventDone ==
    /\ ToClose = {}
    /\ pending = <<>>
    /\ EventDone

\* React runs the queued passive effects.
Flush ==
    \E i \in Inst :
        RunEscapeEffect(i) \/ CleanupEscape(i) \/ RunLockEffect(i) \/ CleanupLock(i)

NextShowcase ==
    \/ \E i \in Inst : ShowcaseMount(i)
    \/ \E i \in Inst : ShowcaseOpen(i)
    \/ \E i \in Inst : ShowcaseRender(i)
    \/ \E i \in Inst : Unmount(i)
    \/ \E i \in Inst : RunEscapeEffect(i)
    \/ \E i \in Inst : CleanupEscape(i)
    \/ \E i \in Inst : RunLockEffect(i)
    \/ \E i \in Inst : CleanupLock(i)
    \/ \E key \in Keys : KeyDown(key)
    \/ \E i \in Inst, target \in ClickTargets : Click(i, target)
    \/ CallerCloses
    \/ ShowcaseEventDone

\* React always flushes queued effects and always renders a state update;
\* nothing obliges the user or the page to act.
SpecShowcase ==
    Init /\ [][NextShowcase]_vars /\ WF_vars(Flush) /\ WF_vars(CallerCloses)

----------------------------------------------------------------------------
(* Button and Input, rendered by a caller *)

\* The caller renders the Button with props bp.
RenderButton(bp) ==
    /\ button' = [mounted |-> TRUE, props |-> bp, element |-> ButtonElement(bp)]
    /\ UNCHANGED <<modal, input, form>>

\* The caller stops rendering the Button.
UnmountButton ==
    /\ button.mounted
    /\ button' = NoButton
    /\ UNCHANGED <<modal, input, form>>

NextButton ==
    \/ \E bp \in ButtonProps : RenderButton(bp)
    \/ UnmountButton

SpecButton == Init /\ [][NextButton]_vars

\* First render of the Input: useState(false); the element is not focused.
InputMount(ip, rnd) ==
    /\ ~input.mounted
    /\ input' = [mounted |-> TRUE, props |-> ip, isFocused |-> FALSE, hasFocus |-> FALSE,
                 element |-> InputElement(ip, FALSE, rnd)]
    /\ UNCHANGED <<modal, button, form>>

\* The caller re-renders the Input with props ip; state and focus are kept.
InputRerender(ip, rnd) ==
    /\ input.mounted
    /\ input' = [input EXCEPT !.props = ip,
                               !.element = InputElement(ip, input.isFocused, rnd)]
    /\ UNCHANGED <<modal, button, form>>

\* A handler of the <input> element ran: setIsFocused(v) re-renders when it
\* changes the state; a handler of the caller leaves the state alone.
AfterHandler(handler, own, v, focus, rnd) ==
    LET f == IF handler = own THEN v ELSE input.isFocused
    IN [input EXCEPT !.hasFocus = focus,
                     !.isFocused = f,
                     !.element = IF f # input.isFocused
                                 THEN InputElement(input.props, f, rnd) ELSE @]

\* The <input> element receives focus: its onFocus handler runs.
InputFocus(rnd) ==
    /\ input.mounted /\ ~input.hasFocus
    /\ input' = AfterHandler(input.element.input.onFocus, "setIsFocused(true)",
                             TRUE, TRUE, rnd)
    /\ UNCHANGED <<modal, button, form>>

\* The <input> element loses focus: its onBlur handler runs.
InputBlur(rnd) ==
    /\ input.mounted /\ input.hasFocus
    /\ input' = AfterHandler(input.element.input.onBlur, "setIsFocused(false)",
                             FALSE, FALSE, rnd)
    /\ UNCHANGED <<modal, button, form>>

\* The caller stops rendering the Input.
InputUnmount ==
    /\ input.mounted
    /\ input' = NoInput
    /\ UNCHANGED <<modal, button, form>>

NextInput ==
    \/ \E ip \in InputProps, rnd \in RandomSuffixes : InputMount(ip, rnd)
    \/ \E ip \in InputProps, rnd \in RandomSuffixes : InputRerender(ip, rnd)
    \/ \E rnd \in RandomSuffixes : InputFocus(rnd)
    \/ \E rnd \in RandomSuffixes : InputBlur(rnd)
    \/ InputUnmount

SpecInput == Init /\ [][NextInput]_vars

----------------------------------------------------------------------------
(* The contact form: ComponentShowcase's isLoading / formData state *)

\* The page is rendered; the React root batches state updates made outside
\* event handlers (b) or renders each of them synchronously (~b).
FormMount(b) ==
    /\ ~form.mounted /\ form.alert = "none"
    /\ form' = [form EXCEPT !.mounted = TRUE, !.batching = b, !.isLoading = FALSE,
                            !.formData = EmptyFormData, !.timers = 0]
    /\ button' = SubmitButton(FALSE)
    /\ UNCHANGED <<modal, input>>

\* handleInputChange / the textarea's onChange: the user types into a field.
FormType(field) ==
    /\ form.mounted /\ form.alert = "none"
    /\ form' = [form EXCEPT !.formData[field] = "typed"]
    /\ UNCHANGED <<modal, button, input>>

\* handleSubmit: the form is submitted through its submit button (a click, or
\* Enter in a field, which the browser turns into a click on that button when
\* it is not disabled).
FormSubmit ==
    /\ form.mounted /\ form.alert = "none"
    /\ ~button.element.disabled
    /\ form.timers + form.old < MaxTimers
    /\ form' = [form EXCEPT !.isLoading = TRUE, !.timers = @ + 1]
    /\ button' = SubmitButton(TRUE)
    /\ UNCHANGED <<modal, input>>

\* The timer fires, 2000 ms after the submit: setIsLoading(false), then alert(...)
\* blocks the callback; the update is rendered at once on a root without
\* batching.
TimerFires ==
    /\ form.mounted /\ form.timers > 0 /\ form.alert = "none"
    /\ form' = [form EXCEPT !.timers = @ - 1, !.alert = "page",
                            !.isLoading = IF form.batching THEN @ ELSE FALSE]
    /\ button' = IF form.batching THEN button ELSE SubmitButton(FALSE)
    /\ UNCHANGED <<modal, input>>

\* alert() returns: setFormData({ name: '', email: '', message: '' }), the
\* callback ends and the pending updates are rendered.  The callback of a
\* timer of an earlier render of the page updates nothing.
AlertReturns ==
    /\ form.alert # "none"
    /\ IF form.alert = "page"
       THEN /\ form' = [form EXCEPT !.alert = "none", !.isLoading = FALSE,
                                    !.formData = EmptyFormData]
            /\ button' = SubmitButton(FALSE)
       ELSE /\ form' = [form EXCEPT !.alert = "none"]
            /\ button' = button
    /\ UNCHANGED <<modal, input>>

\* The page is removed; handleSubmit's timers are not cleared.
FormUnmount ==
    /\ form.mounted /\ form.alert = "none"
    /\ form' = [NoForm EXCEPT !.old = form.old + form.timers]
    /\ button' = NoButton
    /\ UNCHANGED <<modal, input>>

\* A timer of an earlier render of the page fires: its state updates are
\* dropped, its alert is shown.
OldTimerFires ==
    /\ form.old > 0 /\ form.alert = "none"
    /\ form' = [form EXCEPT !.old = @ - 1, !.alert = "old"]
    /\ UNCHANGED <<modal, button, input>>

NextForm ==
    \/ \E b \in BOOLEAN : FormMount(b)
    \/ \E field \in {"name", "email", "message"} : FormType(field)
    \/ FormSubmit
    \/ TimerFires
    \/ AlertReturns
    \/ FormUnmount
    \/ OldTimerFires

\* The event loop fires every started timer, and a callback that has started
\* runs to its end; nothing obliges the user to type or to submit.
SpecForm ==
    Init /\ [][NextForm]_vars
         /\ WF_vars(TimerFires) /\ WF_vars(OldTimerFires) /\ WF_vars(AlertReturns)

TypeOK ==
    /\ mounted \in [Inst -> BOOLEAN]
    /\ props \in [Inst -> Props]
    /\ cleanup2 \in [Inst -> BOOLEAN]
    /\ overflow \in InitialOverflow \cup {"hidden", "unset"}

----------------------------------------------------------------------------
(* Properties *)

AllClosed == \A i \in Inst : ~Open(i)

IsEscape == event.kind = "keydown" /\ event.key = "Escape"

IsClick == event.kind = "click"

\* C1 (lock balance): once every instance is closed and the effects have run,
\* document.body.style.overflow equals the value it had before the first
\* instance opened, and no instance holds the lock.
C1_LockBalance ==
    (Settled /\ AllClosed) =>
        (overflow = overflow0 /\ \A i \in Inst : held[i] = 0)

\* C2 (reference-counted lock): in every settled state in which at least one
\* instance is open, document.body.style.overflow is 'hidden'.
C2_LockedWhileAnyOpen ==
    (Settled /\ \E i \in Inst : Open(i)) => overflow = "hidden"

\* C3 (listener hygiene): in every settled state the keydown listeners on the
\* document are exactly one per mounted instance with isOpen and
\* closeOnEscapeKey, and none for any other instance.
C3_ListenerHygiene ==
    Settled =>
        /\ Len(listeners) =
              Cardinality({i \in Inst : Open(i) /\ props[i].closeOnEscapeKey})
        /\ \A i \in Inst :
              Cardinality(ListenersOf(i)) =
                  IF Open(i) /\ props[i].closeOnEscapeKey THEN 1 ELSE 0

\* C3 witness: settled after a close (the lock cleanup has run), one instance
\* open with its listener installed while another mounted instance is closed.
C3_Witness ==
    /\ Settled
    /\ Len(listeners) = 1
    /\ \E i, j \in Inst :
          /\ Open(i) /\ props[i].closeOnEscapeKey
          /\ mounted[j] /\ ~props[j].isOpen /\ overflow = "unset"

\* C4 (no phantom output): an instance that is not open has no content among
\* the children of document.body, in every state.
C4_NoPhantomOutput ==
    \A i \in Inst : ~Open(i) => Count(portal, i) = 0

\* C4 witness: an instance has just been re-rendered closed (its scroll-lock
\* cleanup is still queued) and its content is already gone.
C4_Witness ==
    \E i \in Inst :
        /\ mounted[i] /\ ~props[i].isOpen
        /\ \E k \in 1..Len(pending) : pending[k] = Step(i, "cleanup2")
        /\ ~InSeq(portal, i)

\* The instance on whose content the click was dispatched.
Clicked == event.inst

\* C5 as stated (backdrop vs interior click): while closeOnBackdropClick is
\* true, a click on any element of the dialog's interior (the dialog
\* container and everything inside it) invokes no onClose, and a click on the
\* backdrop invokes onClose.
C5_InteriorNeverCloses ==
    (IsClick /\ props[Clicked].closeOnBackdropClick) =>
        /\ event.target \in {"dialog", "content", "closeButton"} => calls = <<>>
        /\ event.target = "backdrop" => calls = <<Call(Clicked, props[Clicked].onClose)>>

\* C5 as amended: while closeOnBackdropClick is true, a click on the dialog
\* container or on the content rendered inside it invokes no onClose; a click
\* on the built-in close button invokes onClose exactly once (its own handler,
\* never the backdrop handler as well); a click on the backdrop invokes onClose.
C5_BackdropVsInterior ==
    (IsClick /\ props[Clicked].closeOnBackdropClick) =>
        /\ event.target \in {"dialog", "content"} => calls = <<>>
        /\ event.target \in {"backdrop", "closeButton"} =>
              calls = <<Call(Clicked, props[Clicked].onClose)>>

\* C5 witness: a click on the content inside an open dialog whose
\* closeOnBackdropClick is true has been dispatched and called nothing.
C5_Witness ==
    /\ IsClick
    /\ event.target = "content"
    /\ Open(Clicked) /\ props[Clicked].closeOnBackdropClick
    /\ calls = <<>>

\* C6 (escape idempotence): an Escape keydown invokes the onClose of every open
\* instance with closeOnEscapeKey exactly once, and invokes nothing for an
\* instance that is closed (never opened, closed again, or unmounted).
C6_EscapeIdempotence ==
    IsEscape =>
        \A i \in Inst :
            /\ (Open(i) /\ props[i].closeOnEscapeKey) =>
                  /\ Cardinality(CallsOf(i)) = 1
                  /\ Count(calls, Call(i, props[i].onClose)) = 1
            /\ ~Open(i) => CallsOf(i) = {}

\* C6 witness: an Escape keydown was dispatched while one instance was open
\* with closeOnEscapeKey and another was mounted but closed; only the open
\* one's onClose was called.
C6_Witness ==
    /\ IsEscape
    /\ \E i, j \in Inst :
          /\ Open(i) /\ props[i].closeOnEscapeKey
          /\ mounted[j] /\ ~props[j].isOpen
          /\ calls = <<Call(i, props[i].onClose)>>

\* The state of the dialogs and of the document, apart from the event record.
world == <<mounted, props, cleanup1, cleanup2, held, listeners, overflow, portal, pending>>

\* C7 (never self-closes): a dismissal event only invokes onClose: the step
\* that dispatches an event, and the step that ends it, change no prop, no
\* mounted content, no lock and no listener; so the same dismissal event
\* dispatched again calls onClose again.
C7_NeverSelfCloses ==
    [][event' # event => world' = world]_vars

\* C7 witness: a dismissal event has called an instance's onClose and that
\* instance is still open, mounted in the portal, holding the scroll lock and
\* its key listener.
C7_Witness ==
    /\ event.kind # "none"
    /\ \E i \in Inst :
          /\ CallsOf(i) # {}
          /\ Open(i) /\ InSeq(portal, i)
          /\ held[i] = 1 /\ overflow = "hidden"
          /\ ListenersOf(i) # {}

\* C8, the two flags: a backdrop click invokes onClose iff closeOnBackdropClick
\* (and leaves the dialog mounted), an Escape keydown invokes an open
\* instance's onClose iff closeOnEscapeKey.
C8_Policy ==
    /\ (IsClick /\ event.target = "backdrop") =>
          /\ calls = IF props[Clicked].closeOnBackdropClick
                     THEN <<Call(Clicked, props[Clicked].onClose)>> ELSE <<>>
          /\ Open(Clicked) /\ InSeq(portal, Clicked)
    /\ IsEscape =>
          \A i \in Inst : Open(i) => (CallsOf(i) # {} <=> props[i].closeOnEscapeKey)

\* The props of a render of i that passes flags b and e, with the isOpen and
\* onClose instance i has after the step.
Passing(i, b, e) ==
    [isOpen |-> props'[i].isOpen, onClose |-> props'[i].onClose,
     closeOnBackdropClick |-> b, closeOnEscapeKey |-> e]

\* C8, the defaults: a render (first or later) whose props pass "true" or omit
\* a flag runs with that flag true, and one that passes "false" with it false.
C8_Defaults ==
    \A i \in Inst :
        (mounted'[i] /\ (~mounted[i] \/ props'[i] # props[i])) =>
            \A b \in PropValues, e \in PropValues :
                (Mount(i, Passing(i, b, e)) \/ Rerender(i, Passing(i, b, e))) =>
                    /\ props'[i].closeOnBackdropClick = (b # "false")
                    /\ props'[i].closeOnEscapeKey = (e # "false")

\* C8 (dismissal policy): the flags decide the dismissal, and both default to
\* true when omitted.
C8_DismissalPolicy == []C8_Policy /\ [][C8_Defaults]_vars

\* C8 witness: a backdrop click on an open dialog with closeOnBackdropClick
\* false called nothing and the dialog is still mounted.
C8_Witness ==
    /\ IsClick /\ event.target = "backdrop"
    /\ ~props[Clicked].closeOnBackdropClick
    /\ calls = <<>>
    /\ Open(Clicked) /\ InSeq(portal, Clicked)

\* Instance i holds the scroll lock: it has run line 49 and not yet line 51.
HoldsLock(i) == held[i] >= 1

\* Number of keydown listeners of instance i on the document.
NumListeners(i) == Cardinality(ListenersOf(i))

C10_Balanced ==
    \A i \in Inst :
        /\ held[i] \in {0, 1}
        /\ NumListeners(i) <= 1
        /\ Settled =>
              /\ HoldsLock(i) <=> Open(i)
              /\ ListenersOf(i) # {} <=> (Open(i) /\ props[i].closeOnEscapeKey)

\* C10, in every step: the lock is acquired only by an instance that is open
\* and holds none, and released only by an instance that holds one and is no
\* longer open (one pair per Closed -> Open -> Closed cycle).
C10_OnePairPerCycle ==
    \A i \in Inst :
        /\ held'[i] > held[i] => (Open(i) /\ held[i] = 0 /\ held'[i] = 1)
        /\ held'[i] < held[i] => (~Open(i) /\ held[i] = 1 /\ held'[i] = 0)

\* C10 (per-instance exactly-once side effects).
C10_ExactlyOnce == []C10_Balanced /\ [][C10_OnePairPerCycle]_vars

\* C10 witness: an instance that was open has just released its lock (the
\* effect bodies of the closing render are still queued) while the other
\* instance still holds its own.
C10_Witness ==
    \E i, j \in Inst :
        /\ mounted[i] /\ ~props[i].isOpen
        /\ NextIs(i, "run1")
        /\ held[i] = 0 /\ overflow = "unset"
        /\ Open(j) /\ held[j] = 1

\* C11 (teardown while open): an instance that is no longer rendered has no
\* content under document.body, and once the cleanups queued by its removal
\* have run it has no key listener, holds no scroll lock and keeps no cleanup,
\* whether or not it was open when it was removed.
C11_TeardownWhileOpen ==
    \A i \in Inst :
        ~mounted[i] =>
            /\ ~InSeq(portal, i)
            /\ Settled =>
                  /\ ListenersOf(i) = {}
                  /\ held[i] = 0
                  /\ cleanup1[i] = <<>> /\ ~cleanup2[i]

\* C11 witness: an instance was removed while open with its key listener
\* installed: its content is already gone and both cleanups are queued.
C11_Witness ==
    \E i \in Inst :
        /\ ~mounted[i]
        /\ pending = <<Step(i, "cleanup1"), Step(i, "cleanup2")>>
        /\ ListenersOf(i) # {} /\ held[i] = 1
        /\ ~InSeq(portal, i)

\* C12 (at most one key listener per instance): in every state, states inside
\* a re-render included, an instance has at most one keydown listener on the
\* document, and that listener is the one its stored cleanup removes; so a
\* listener is registered only after the previous one was removed.
C12_AtMostOneListener ==
    \A i \in Inst :
        /\ NumListeners(i) <= 1
        /\ cleanup1[i] = <<>> => NumListeners(i) = 0
        /\ cleanup1[i] # <<>> =>
              /\ cleanup1[i][1].inst = i
              /\ Count(listeners, cleanup1[i][1]) = 1

\* C12 witness: an open instance was re-rendered with another onClose; the
\* listener that closes over the previous onClose is still its only one and
\* its removal is queued before the registration of the new one.
C12_Witness ==
    \E i \in Inst :
        /\ Open(i) /\ props[i].closeOnEscapeKey
        /\ pending = <<Step(i, "cleanup1"), Step(i, "run1")>>
        /\ NumListeners(i) = 1
        /\ cleanup1[i][1].cb # props[i].onClose

\* A step that re-renders instance i with other props and the same isOpen.
SameOpenRerender(i) ==
    /\ Idle /\ mounted[i] /\ mounted'[i]
    /\ props'[i] # props[i]
    /\ props'[i].isOpen = props[i].isOpen

\* Effect steps of i that such a re-render leaves queued and that act on the
\* document: a listener removal, or a registration by an open instance.
ListenerSteps(i, q, p) ==
    {k \in 1..Len(q) :
        \/ q[k] = Step(i, "cleanup1")
        \/ q[k] = Step(i, "run1") /\ EscapeEffectRegisters(p)}

LockSteps(i, q) ==
    {k \in 1..Len(q) : q[k] \in {Step(i, "cleanup2"), Step(i, "run2")}}

\* C13 as stated (redundant renders are no-ops): a re-render of an instance
\* with isOpen equal to its current value, whatever the other props, queues no
\* listener registration or removal, no write to the body overflow style and
\* commits no mount or unmount.
C13_RedundantRenderNoOp ==
    [][\A i \in Inst :
          SameOpenRerender(i) =>
              /\ ListenerSteps(i, pending', props'[i]) = {}
              /\ LockSteps(i, pending') = {}
              /\ portal' = portal]_vars

\* C13 amended: a re-render with the same isOpen never queues a scroll-lock
\* step and never mounts or unmounts; it leaves the key listener alone when
\* onClose and closeOnEscapeKey are unchanged too, and when the instance is
\* closed; when the instance is open and onClose or closeOnEscapeKey changed,
\* it queues the removal of the installed listener (if any) followed by one
\* run of the escape-key effect, and these two steps touch neither the
\* overflow style, nor the lock, nor the mounted content.
C13_RedundantRender ==
    [][\A i \in Inst :
          /\ SameOpenRerender(i) =>
                /\ LockSteps(i, pending') = {}
                /\ portal' = portal /\ overflow' = overflow
                /\ listeners' = listeners /\ held' = held
                /\ (EscapeDeps(props'[i]) = EscapeDeps(props[i]) \/ ~props[i].isOpen)
                      => ListenerSteps(i, pending', props'[i]) = {}
                /\ (EscapeDeps(props'[i]) # EscapeDeps(props[i]) /\ props[i].isOpen)
                      => pending' =
                           (IF cleanup1[i] # <<>> THEN <<Step(i, "cleanup1")>> ELSE <<>>)
                           \o <<Step(i, "run1")>>
          /\ (NextIs(i, "cleanup1") \/ NextIs(i, "run1")) =>
                /\ overflow' = overflow /\ held' = held /\ portal' = portal
                /\ NumListeners(i)' <= 1]_vars

\* C13 witness: an open instance holding the lock was re-rendered open with
\* another onClose or closeOnEscapeKey; its previous listener is removed, the
\* registration of the new one is queued, lock and content are untouched.
C13_Witness ==
    \E i \in Inst :
        /\ Open(i) /\ props[i].closeOnEscapeKey
        /\ pending = <<Step(i, "run1")>>
        /\ NumListeners(i) = 0
        /\ held[i] = 1 /\ overflow = "hidden" /\ InSeq(portal, i)

\* A step of instance i: its render, its removal, or one of its effect steps.
StepOf(i) ==
    \/ mounted'[i] # mounted[i]
    \/ props'[i] # props[i]
    \/ \E k \in {"cleanup1", "cleanup2", "run1", "run2"} : NextIs(i, k)

\* Instance i is closed and no cleanup of an earlier open phase is left.
QuietClosed(i) == ~Open(i) /\ cleanup1[i] = <<>> /\ ~cleanup2[i]

\* C14 (a closed instance touches no global resource): a step of an instance
\* that is closed before and after it, with no cleanup left from an earlier
\* open phase, registers no listener, does not write the body overflow style,
\* mounts no content, and leaves the instance without cleanup again; this
\* covers its mount, its re-renders, its effect runs and its unmount.
C14_ClosedTouchesNothing ==
    [][\A i \in Inst :
          (QuietClosed(i) /\ ~Open(i)' /\ StepOf(i)) =>
              /\ listeners' = listeners
              /\ overflow' = overflow /\ held' = held
              /\ portal' = portal
              /\ QuietClosed(i)'
              /\ \A k \in 1..Len(pending') :
                    pending'[k] \notin {Step(i, "cleanup1"), Step(i, "cleanup2")}]_vars

\* C14 witness: an instance was mounted closed and re-rendered closed with
\* another onClose; its effects have run and the document is untouched.
C14_Witness ==
    \E i \in Inst :
        /\ Settled /\ mounted[i] /\ ~props[i].isOpen
        /\ props[i].onClose = "cbB" /\ ~props[i].closeOnEscapeKey
        /\ listeners = <<>> /\ portal = <<>>
        /\ overflow = overflow0
        /\ \A j \in Inst : held[j] = 0

\* The children of document.body without the content of instance i.
Without(s, i) == LET Other(j) == j # i IN SelectSeq(s, Other)

\* C16 (stacking order): content that gets mounted is placed after every
\* content already under document.body, so the contents of concurrently open
\* instances are in the order the instances were opened; content that gets
\* removed leaves the others in their order; no step reorders the children.
C16_StackingOrder ==
    [][/\ \A i \in Inst :
            /\ (~InSeq(portal, i) /\ InSeq(portal', i)) => portal' = Append(portal, i)
            /\ (InSeq(portal, i) /\ ~InSeq(portal', i)) => portal' = Without(portal, i)
       /\ portal' # portal => \E i \in Inst : InSeq(portal, i) # InSeq(portal', i)]_vars

\* C16 witness: two instances are open concurrently and the one with the
\* higher index, opened first, is below the other.
C16_Witness ==
    /\ Settled
    /\ Len(portal) >= 2
    /\ portal[1] > portal[2]
    /\ \A k \in 1..Len(portal) : Open(portal[k])

\* C17 (detached rendering): in every state, the content of every open
\* instance is a child of document.body, exactly once, and document.body
\* has no other child rendered by an instance.
C17_DetachedRendering ==
    /\ \A i \in Inst : Open(i) => Count(portal, i) = 1
    /\ \A k \in 1..Len(portal) : portal[k] \in Inst

\* C17 witness: every instance is open, with its effects still queued for the
\* last one, and all the contents are under document.body.
C17_Witness ==
    /\ \A i \in Inst : Open(i) /\ InSeq(portal, i)
    /\ ~Settled

\* C20 (close button): a click on the built-in close button invokes the
\* instance's onClose exactly once, whatever closeOnBackdropClick and
\* closeOnEscapeKey are, and invokes nothing else.
C20_CloseButton ==
    (IsClick /\ event.target = "closeButton") =>
        /\ calls = <<Call(Clicked, props[Clicked].onClose)>>
        /\ Cardinality(CallsOf(Clicked)) = 1

\* C20 witness: the close button of an open dialog with both
\* closeOnBackdropClick and closeOnEscapeKey false was clicked and onClose
\* was called once.
C20_Witness ==
    /\ IsClick /\ event.target = "closeButton"
    /\ Open(Clicked)
    /\ ~props[Clicked].closeOnBackdropClick /\ ~props[Clicked].closeOnEscapeKey
    /\ Len(calls) = 1

\* Instance i is rendered closed and nothing of an open phase is left.
FullyClosed(i) ==
    /\ mounted[i] /\ ~props[i].isOpen
    /\ Settled
    /\ ListenersOf(i) = {}
    /\ held[i] = 0 /\ cleanup1[i] = <<>> /\ ~cleanup2[i]
    /\ ~InSeq(portal, i)

\* C15 (end-to-end Escape dismissal): with a caller whose onClose sets isOpen
\* to false, an Escape keydown dispatched while an instance is open with
\* closeOnEscapeKey always leads, within the handling of that event, to a
\* state where the instance's onClose was called exactly once, its scroll
\* lock is released, its key listener is detached and its content is
\* unmounted; no Escape keydown ever calls an instance's onClose twice.
C15_EscapeDismissal ==
    /\ [](\A i \in Inst : IsEscape => Cardinality(CallsOf(i)) <= 1)
    /\ \A i \in Inst :
          (IsEscape /\ Open(i) /\ props[i].closeOnEscapeKey)
              ~> (IsEscape /\ Cardinality(CallsOf(i)) = 1 /\ FullyClosed(i))

\* C15 witness: an Escape keydown closed an instance: one onClose call is
\* recorded, the close is flushed and the instance is fully closed.
C15_Witness ==
    \E i \in Inst :
        /\ IsEscape
        /\ Cardinality(CallsOf(i)) = 1
        /\ FullyClosed(i)
        /\ overflow # "hidden"

\* C18 (Button loading state): the rendered button is disabled exactly when
\* the disabled prop is truthy or isLoading is true; while isLoading is true
\* its content is the spinner followed by 'Loading...', otherwise its
\* children; for every variant and size.
C18_ButtonLoading ==
    button.mounted =>
        /\ button.element.disabled <=>
              (button.props.disabled = "true" \/ button.props.isLoading = "true")
        /\ button.props.isLoading = "true" =>
              button.element.children = <<"spinner", "Loading...">>
        /\ button.props.isLoading # "true" =>
              button.element.children = <<button.props.children>>

\* C18 witness: a large danger button with isLoading true and disabled false
\* is rendered disabled and shows the spinner with 'Loading...'.
C18_Witness ==
    /\ button.mounted
    /\ button.props.variant = "danger" /\ button.props.size = "lg"
    /\ button.props.isLoading = "true" /\ button.props.disabled = "false"
    /\ button.element.disabled
    /\ button.element.children = <<"spinner", "Loading...">>

\* C19 (Input label focus styling): for an Input with a label, whatever other
\* props are passed, the label has its focused colour exactly while the input
\* element has focus.
C19_LabelFocus ==
    (input.mounted /\ input.props.label # "") =>
        /\ input.element.label # <<>>
        /\ input.element.label[1].className = "text-[#5200ff]" <=> input.hasFocus

\* C21 (Escape with several dialogs open): an Escape keydown calls, in the
\* order in which the listeners were registered, the onClose of every open
\* instance with closeOnEscapeKey, each exactly once, whether or not it is
\* the most recently opened one; an open instance with closeOnEscapeKey false
\* is not called.
C21_EscapeReachesAll ==
    IsEscape =>
        /\ Len(calls) = Len(listeners)
        /\ \A k \in 1..Len(calls) :
              calls[k] = Call(listeners[k].inst, listeners[k].cb)
        /\ \A i \in Inst :
              Open(i) =>
                  Cardinality(CallsOf(i)) = IF props[i].closeOnEscapeKey THEN 1 ELSE 0

\* C21 witness: every instance is open with closeOnEscapeKey, the one with the
\* highest index registered its listener first, and one Escape keydown called
\* all of them, that one first.
C21_Witness ==
    /\ IsEscape
    /\ \A i \in Inst : Open(i) /\ props[i].closeOnEscapeKey
    /\ Len(calls) = NumInst
    /\ calls[1].inst = NumInst

\* A step that re-renders the open instance i open, with another closeOnEscapeKey.
EscapeKeyFlagChange(i) ==
    /\ Idle /\ mounted[i] /\ mounted'[i]
    /\ props[i].isOpen /\ props'[i].isOpen
    /\ props'[i].closeOnEscapeKey # props[i].closeOnEscapeKey

\* C22 (changing closeOnEscapeKey while open): the re-render leaves the
\* content mounted and queues no scroll-lock step; true -> false queues the
\* removal of the instance's listener followed by a run of the escape-key
\* effect that registers nothing, false -> true queues a run that registers
\* one listener; the queued steps leave the body overflow, the lock and the
\* mounted content unchanged.
C22_EscapeKeyFlagChange ==
    [][\A i \in Inst :
          /\ EscapeKeyFlagChange(i) =>
                /\ portal' = portal /\ InSeq(portal', i)
                /\ overflow' = overflow /\ held' = held /\ cleanup2' = cleanup2
                /\ listeners' = listeners
                /\ pending' = IF props[i].closeOnEscapeKey
                              THEN <<Step(i, "cleanup1"), Step(i, "run1")>>
                              ELSE <<Step(i, "run1")>>
          /\ (Open(i) /\ NextIs(i, "cleanup1")) =>
                /\ NumListeners(i)' = 0
                /\ overflow' = overflow /\ held' = held /\ portal' = portal
          /\ (Open(i) /\ NextIs(i, "run1")) =>
                /\ NumListeners(i)' = IF props[i].closeOnEscapeKey THEN 1 ELSE 0
                /\ overflow' = overflow /\ held' = held /\ portal' = portal]_vars

\* C22 witness: an open instance holding the lock was re-rendered with
\* closeOnEscapeKey false and the same onClose; its listener is still
\* installed and its removal is queued.
C22_Witness ==
    \E i \in Inst :
        /\ Open(i) /\ ~props[i].closeOnEscapeKey
        /\ pending = <<Step(i, "cleanup1"), Step(i, "run1")>>
        /\ NumListeners(i) = 1
        /\ cleanup1[i][1].cb = props[i].onClose
        /\ held[i] = 1 /\ overflow = "hidden" /\ InSeq(portal, i)

\* C23 (no stale close callback): a listener that closes over an onClose
\* other than the one of its instance's last render exists only while its
\* removal is still queued; events are dispatched when nothing is queued, so
\* every onClose an event calls is the most recently supplied one, and an
\* Escape keydown calls it at most once per instance.
C23_NoStaleCallback ==
    /\ \A k \in 1..Len(listeners) :
          listeners[k].cb # props[listeners[k].inst].onClose =>
              InSeq(pending, Step(listeners[k].inst, "cleanup1"))
    /\ \A k \in 1..Len(calls) : calls[k].cb = props[calls[k].inst].onClose
    /\ IsEscape => \A i \in Inst : Cardinality(CallsOf(i)) <= 1

\* C23 witness: an open instance first rendered with one onClose was
\* re-rendered with another; the listener closing over the first one is still
\* on the document and its removal is queued.
C23_Witness ==
    \E i \in Inst :
        /\ Open(i) /\ props[i].closeOnEscapeKey /\ props[i].onClose = "cbB"
        /\ InSeq(listeners, [inst |-> i, cb |-> "cbA"])
        /\ NextIs(i, "cleanup1")
        /\ held[i] = 1

\* C24 (only the Escape key dismisses): the dispatch of a keydown of any other
\* key calls no onClose and changes no prop, lock, listener or mounted content.
C24_OnlyEscapeDismisses ==
    [][(event'.kind = "keydown" /\ event'.key # "Escape") =>
          (calls' = <<>> /\ world' = world)]_vars

\* C24 witness: an Enter keydown was dispatched while an instance was open
\* with closeOnEscapeKey and its listener installed; nothing was called.
C24_Witness ==
    /\ event.kind = "keydown" /\ event.key = "Enter"
    /\ calls = <<>>
    /\ \E i \in Inst :
          /\ Open(i) /\ props[i].closeOnEscapeKey
          /\ NumListeners(i) = 1 /\ held[i] = 1 /\ InSeq(portal, i)

C26_DisabledWhileLoading ==
    form.mounted =>
        /\ form.isLoading => button.element.disabled
        /\ form.isLoading =>
              (form.timers = 1 /\ form.alert # "page")
              \/ (form.timers = 0 /\ form.alert = "page")
        /\ ~form.isLoading => form.timers = 0

\* C26, in every step: a submit happens only while isLoading is false and sets
\* it to true; the return of the timer callback leaves isLoading false and
\* formData empty.
C26_SubmitStep ==
    /\ form'.timers > form.timers =>
          (~form.isLoading /\ form'.isLoading /\ button'.element.disabled)
    /\ (form.alert = "page" /\ form'.alert = "none") =>
          (~form'.isLoading /\ form'.formData = EmptyFormData
           /\ ~button'.element.disabled)

====
